---- MODULE Spec2Model ----
(***************************************************************************)
(* A model of the diabetes-monitoring repository:                          *)
(*   - the Flask web application (src/app.py) over the tables of           *)
(*     src/models.py, stored in the default SQLite database;               *)
(*   - the client data partitioning utility (src/create_client_data.py);   *)
(*   - the federated simulation driver (src/federated_sim.py).             *)
(* Every HTTP handler is one atomic action (the server handles a request   *)
(* to completion, and the model is of sequential requests).                *)
(***************************************************************************)
EXTENDS Integers, Sequences, FiniteSets, Bags, TLC

\* ------------------------------------------------------------------ bounds
MaxUsers == 4          \* rows of the user table
MaxAudit == 3          \* rows of the audit_log table
MaxTime == 2           \* the instants 1..MaxTime that datetime.now() returns
MaxReadings == 3       \* rows of the glucose_reading table
MaxRows == 4           \* rows of the main dataset
MaxClients == 3        \* federated clients
MaxPredictions == 1    \* rows of the risk_prediction table when no audit entry bounds them
MaxAuditOk == 1        \* rows of the audit_log table when its writes can fail
MaxAuditLong == 5      \* rows of the audit_log table in the longest scenario

\* ------------------------------------------------------- program constants
AlertThreshold == 70   \* 0.7, in hundredths
MinPasswordLen == 6

\* None where an integer is expected: a NULL user_id, no user id in the session
None == 0
NoFlash == ""

VARIABLES
    user,             \* table user: id -> [email, password_hash, role]
    patient_profile,  \* table patient_profile: id -> [user_id, first_name, last_name, name]
    audit_log,        \* table audit_log, in id order
    risk_prediction,  \* table risk_prediction, a bag of rows
    alert,            \* table alert, a bag of rows
    glucose_reading,  \* table glucose_reading, a bag of rows
    session,          \* per browser, the user id flask-login keeps in the cookie
    resp,             \* the last request handled and its response
    clock,            \* the wall clock read by datetime.now()
    data_dir,         \* the data directory: the main dataset and the client shards
    split,            \* create_client_data_files: its arguments and position
    sim               \* simulate_federated_learning: its position and children

webVars == <<user, patient_profile, audit_log, risk_prediction, alert,
             glucose_reading, session, resp, clock>>
vars == <<user, patient_profile, audit_log, risk_prediction, alert,
          glucose_reading, session, resp, clock, data_dir, split, sim>>

\* ------------------------------------------------------------ input domains
Browsers == {"b1", "b2"}
OneBrowser == {"b1"}
SeedEmails == {"admin@example.com", "clinician@example.com", "patient@example.com"}
Emails == SeedEmails \cup {"new@example.com"}
FormEmails == Emails \cup {""}
LoginPasswords == {"admin123", "password123"}
\* request.form.get('password') of a form that has no password field
NoPassword == "<None>"
LoginFields == LoginPasswords \cup {NoPassword}
FormPasswords == {"", "short", "password123"}
\* the registration forms: a valid one, and one failing each validation
RegisterForms ==
    {[password |-> "password123", confirm |-> "password123", first |-> "Ann", last |-> "Lee"],
     [password |-> "", confirm |-> "", first |-> "Ann", last |-> "Lee"],
     [password |-> "password123", confirm |-> "admin123", first |-> "Ann", last |-> "Lee"],
     [password |-> "short", confirm |-> "short", first |-> "Ann", last |-> "Lee"],
     [password |-> "password123", confirm |-> "password123", first |-> " ", last |-> "Lee"],
     [password |-> "password123", confirm |-> "password123", first |-> "Ann", last |-> ""]}
Roles == {"patient", "clinician", "admin"}

\* ---------------------------------------------------------------- helpers
Max(S) == CHOOSE m \in S : \A x \in S : x <= m

\* An INTEGER PRIMARY KEY of SQLite: the next rowid is the largest one plus 1.
NextId(table) == IF DOMAIN table = {} THEN 1 ELSE Max(DOMAIN table) + 1

Insert(table, row) == table @@ (NextId(table) :> row)

Delete(table, id) == [i \in DOMAIN table \ {id} |-> table[i]]

EmptyTable == <<>>

\* str.strip() on the modelled names
Strip(s) == IF s = " " THEN "" ELSE s

generate_password_hash(password) == <<"pbkdf2", password>>

check_password_hash(pwhash, password) == pwhash = <<"pbkdf2", password>>

\* User.query.filter_by(email=email).first()
UserByEmail(table, email) ==
    IF \E i \in DOMAIN table : table[i].email = email
    THEN CHOOSE i \in DOMAIN table : table[i].email = email
    ELSE None

\* load_user via the session cookie: the current user, or None (anonymous)
current_user(b) ==
    IF session[b] # None /\ session[b] \in DOMAIN user THEN session[b] ELSE None

is_authenticated(b) == current_user(b) # None

\* the last request and its answer; file is the CSV the request carried
Response(route, b, result, flash, body) ==
    [route |-> route, browser |-> b, result |-> result, flash |-> flash, body |-> body,
     file |-> <<>>, audit_failed |-> FALSE]

Upload(r, rows) == [r EXCEPT !.file = rows]

\* the answer of a request whose audit write failed, or did not
AuditOutcome(r, fails) == [r EXCEPT !.audit_failed = fails]

\* ------------------------------------------------------------- log_audit
AuditEntry(user_id, action, text, arg) ==
    [user_id |-> user_id, action |-> action,
     details |-> <<text, arg>>, ip_address |-> "127.0.0.1"]

\* the try adds the entry and commits it; when that raises, the except rolls
\* back and no entry is written
log_audit(log, user_id, action, text, arg, fails) ==
    IF fails THEN log ELSE Append(log, AuditEntry(user_id, action, text, arg))

AuditRoom == Len(audit_log) < MaxAudit

\* an audit write that succeeds needs room in the bounded table
AuditRoomOr(fails) == fails \/ AuditRoom

\* ------------------------------------------------------------ seed_defaults
SeedAdmin(u) ==
    IF UserByEmail(u, "admin@example.com") = None
    THEN Insert(u, [email |-> "admin@example.com", role |-> "admin",
                    password_hash |-> generate_password_hash("admin123")])
    ELSE u

SeedClinician(u) ==
    IF UserByEmail(u, "clinician@example.com") = None
    THEN Insert(u, [email |-> "clinician@example.com", role |-> "clinician",
                    password_hash |-> generate_password_hash("password123")])
    ELSE u

SeedPatient(u) ==
    IF UserByEmail(u, "patient@example.com") = None
    THEN Insert(u, [email |-> "patient@example.com", role |-> "patient",
                    password_hash |-> generate_password_hash("password123")])
    ELSE u

SeedUsers(u) == SeedPatient(SeedClinician(SeedAdmin(u)))

SeedProfiles(u, p) ==
    IF UserByEmail(SeedClinician(SeedAdmin(u)), "patient@example.com") = None
    THEN Insert(p, [user_id |-> NextId(SeedClinician(SeedAdmin(u))),
                    first_name |-> "John", last_name |-> "Doe",
                    name |-> <<"John", "Doe">>])
    ELSE p

\* --------------------------------------------------------------- the gate
RoleAllowedAny(role, roles) == TRUE

\* role_required: current_user.role in roles
RoleAllowed(role, roles) == role \in roles

\* @login_required, then @role_required(*roles): "ok" runs the handler body
Gate(b, roles) ==
    IF ~is_authenticated(b) THEN "redirect:login"
    ELSE IF ~RoleAllowed(user[current_user(b)].role, roles) THEN "redirect:index"
    ELSE "ok"

GateResponse(route, b, roles) ==
    IF Gate(b, roles) = "redirect:login"
    THEN Response(route, b, "redirect:login", NoFlash, FALSE)
    ELSE Response(route, b, "redirect:index", "Unauthorized", FALSE)

\* ------------------------------------------------------------------ login
LoginOk(email, password) ==
    /\ UserByEmail(user, email) # None
    /\ check_password_hash(user[UserByEmail(user, email)].password_hash, password)

\* the user reference of the login_failed event: log_audit(None, ...)
FailedLoginUser(email) == None

\* check_password_hash(user.password_hash, None) raises: the user was found
\* and the form has no password field
PasswordRaises(email, password) ==
    UserByEmail(user, email) # None /\ password = NoPassword

Login(b, email, password, fails) ==
    /\ IF PasswordRaises(email, password)
       THEN /\ resp' = Response("login", b, "500", NoFlash, TRUE)
            /\ UNCHANGED <<session, audit_log>>
       ELSE IF LoginOk(email, password)
       THEN /\ AuditRoomOr(fails)
            /\ session' = [session EXCEPT ![b] = UserByEmail(user, email)]
            /\ audit_log' = log_audit(audit_log, UserByEmail(user, email),
                                      "user_login", "logged in", email, fails)
            /\ resp' = AuditOutcome(Response("login", b, "redirect:index", NoFlash, TRUE),
                                    fails)
       ELSE /\ AuditRoomOr(fails)
            /\ session' = session
            /\ audit_log' = log_audit(audit_log, FailedLoginUser(email), "login_failed",
                                      "Failed login attempt", email, fails)
            /\ resp' = AuditOutcome(Response("login", b, "render:login.html",
                                             "Invalid credentials", TRUE), fails)
    /\ UNCHANGED <<user, patient_profile, risk_prediction, alert,
                   glucose_reading, clock, data_dir, split, sim>>

\* ----------------------------------------------------------------- logout
Logout(b, fails) ==
    /\ IF is_authenticated(b)
       THEN /\ AuditRoomOr(fails)
            /\ audit_log' = log_audit(audit_log, current_user(b), "user_logout",
                                      "logged out", user[current_user(b)].email, fails)
            /\ session' = [session EXCEPT ![b] = None]
            /\ resp' = AuditOutcome(Response("logout", b, "redirect:login", NoFlash, TRUE),
                                    fails)
       ELSE /\ resp' = Response("logout", b, "redirect:login", NoFlash, FALSE)
            /\ UNCHANGED <<audit_log, session>>
    /\ UNCHANGED <<user, patient_profile, risk_prediction, alert,
                   glucose_reading, clock, data_dir, split, sim>>

\* --------------------------------------------------------------- register
RegisterInvalid(email, password, confirm, first, last) ==
    \/ email = "" \/ password = ""
    \/ password # confirm
    \/ Len(password) < MinPasswordLen
    \/ Strip(first) = "" \/ Strip(last) = ""

EmailTakenNever(email) == FALSE

\* User.query.filter_by(email=email).first() is not None
EmailTaken(email) == UserByEmail(user, email) # None

Register(b, email, password, confirm, first, last, fails) ==
    /\ IF RegisterInvalid(email, password, confirm, first, last)
       THEN /\ resp' = Response("register", b, "render:register.html", "invalid", TRUE)
            /\ UNCHANGED <<user, patient_profile, audit_log>>
       ELSE IF EmailTaken(email)
       THEN /\ resp' = Response("register", b, "redirect:login",
                                "Email already registered", TRUE)
            /\ UNCHANGED <<user, patient_profile, audit_log>>
       ELSE /\ Cardinality(DOMAIN user) < MaxUsers
            /\ AuditRoomOr(fails)
            /\ user' = Insert(user, [email |-> email, role |-> "patient",
                                     password_hash |-> generate_password_hash(password)])
            /\ patient_profile' =
                   Insert(patient_profile,
                          [user_id |-> NextId(user), first_name |-> Strip(first),
                           last_name |-> Strip(last),
                           name |-> <<Strip(first), Strip(last)>>])
            /\ audit_log' = log_audit(audit_log, NextId(user), "user_register",
                                      "New patient registered", email, fails)
            /\ resp' = AuditOutcome(Response("register", b, "redirect:login",
                                             "Registration successful", TRUE), fails)
    /\ UNCHANGED <<session, risk_prediction, alert, glucose_reading, clock, data_dir, split, sim>>

\* ------------------------------------------------------- create_clinician
ClinicianInvalid(email, password) ==
    \/ email = "" \/ password = ""
    \/ Len(password) < MinPasswordLen

CreateClinician(b, email, password, fails) ==
    /\ IF Gate(b, {"admin"}) # "ok"
       THEN /\ resp' = GateResponse("create_clinician", b, {"admin"})
            /\ UNCHANGED <<user, audit_log>>
       ELSE IF ClinicianInvalid(email, password)
       THEN /\ resp' = Response("create_clinician", b, "redirect:admin_dashboard",
                                "invalid", TRUE)
            /\ UNCHANGED <<user, audit_log>>
       ELSE IF EmailTaken(email)
       THEN /\ resp' = Response("create_clinician", b, "redirect:admin_dashboard",
                                "Email already registered", TRUE)
            /\ UNCHANGED <<user, audit_log>>
       ELSE /\ Cardinality(DOMAIN user) < MaxUsers
            /\ AuditRoomOr(fails)
            /\ user' = Insert(user, [email |-> email, role |-> "clinician",
                                     password_hash |-> generate_password_hash(password)])
            /\ audit_log' = log_audit(audit_log, current_user(b), "clinician_created",
                                      "Admin created clinician", email, fails)
            /\ resp' = AuditOutcome(Response("create_clinician", b,
                                             "redirect:admin_dashboard",
                                             "created successfully", TRUE), fails)
    /\ UNCHANGED <<patient_profile, session, risk_prediction, alert,
                   glucose_reading, clock, data_dir, split, sim>>

\* ------------------------------------------------------------ delete_user
\* User.profile (uselist=False, no delete cascade): the row whose user_id
\* the unit of work sets to NULL when the user is deleted
HasProfile(id) == \E p \in DOMAIN patient_profile : patient_profile[p].user_id = id

\* User.audit_logs (backref of AuditLog.user, no delete cascade): the rows
\* of the deleted user get user_id NULL, the column being nullable
OrphanAudit(log, id) ==
    [k \in 1..Len(log) |->
        IF log[k].user_id = id THEN [log[k] EXCEPT !.user_id = None] ELSE log[k]]

DeleteUser(b, user_id, fails) ==
    /\ IF Gate(b, {"admin"}) # "ok"
       THEN /\ resp' = GateResponse("delete_user", b, {"admin"})
            /\ UNCHANGED <<user, audit_log>>
       ELSE IF user_id \notin DOMAIN user
       THEN /\ resp' = Response("delete_user", b, "404", NoFlash, TRUE)
            /\ UNCHANGED <<user, audit_log>>
       ELSE IF user_id = current_user(b)
       THEN /\ resp' = Response("delete_user", b, "redirect:admin_dashboard",
                                "You cannot delete your own account", TRUE)
            /\ UNCHANGED <<user, audit_log>>
       ELSE IF HasProfile(user_id)
       THEN \* patient_profile.user_id is NOT NULL: the commit raises IntegrityError
            /\ resp' = Response("delete_user", b, "500", NoFlash, TRUE)
            /\ UNCHANGED <<user, audit_log>>
       ELSE /\ AuditRoomOr(fails)
            /\ user' = Delete(user, user_id)
            /\ audit_log' = log_audit(OrphanAudit(audit_log, user_id), current_user(b),
                                      "user_deleted", "Admin deleted user",
                                      user[user_id].email, fails)
            /\ resp' = AuditOutcome(Response("delete_user", b, "redirect:admin_dashboard",
                                             "deleted successfully", TRUE), fails)
    /\ UNCHANGED <<patient_profile, session, risk_prediction, alert,
                   glucose_reading, clock, data_dir, split, sim>>

\* ------------------------------------------------ the read-only gated routes
GatedGet(route, b, roles, page) ==
    /\ resp' = IF Gate(b, roles) # "ok" THEN GateResponse(route, b, roles)
               ELSE Response(route, b, page, NoFlash, TRUE)
    /\ UNCHANGED <<user, patient_profile, audit_log, session, risk_prediction, alert,
                   glucose_reading, clock, data_dir, split, sim>>

PatientDashboard(b) ==
    GatedGet("patient_dashboard", b, {"patient"}, "render:patient_dashboard.html")

ClinicianDashboard(b) ==
    GatedGet("clinician_dashboard", b, {"clinician"}, "render:clinician_dashboard.html")

ExportPatientCsv(b) ==
    GatedGet("export_patient_csv", b, {"clinician"}, "file:csv")

AdminDashboard(b) ==
    GatedGet("admin_dashboard", b, {"admin"}, "render:admin_dashboard.html")

\* ------------------------------------------------- initdb / seed_defaults
SeedDefaults ==
    /\ user' = SeedUsers(user)
    /\ patient_profile' = SeedProfiles(user, patient_profile)
    /\ resp' = Response("initdb", "cli", "done", NoFlash, TRUE)
    /\ UNCHANGED <<audit_log, session, risk_prediction, alert,
                   glucose_reading, clock, data_dir, split, sim>>

\* ------------------------------------------------------------ api_predict
Preds == {0, 1}
Probs == {69, 70, 71}

AlertNeededAbove(prob) == prob > AlertThreshold

\* the alert rule: prob >= 0.7
AlertNeeded(prob) == prob >= AlertThreshold

ApiPredict(b, raises, pred, prob, fails) ==
    /\ IF ~is_authenticated(b)
       THEN /\ resp' = Response("api_predict", b, "redirect:login", NoFlash, FALSE)
            /\ UNCHANGED <<risk_prediction, alert, audit_log>>
       ELSE IF raises
       THEN /\ resp' = Response("api_predict", b, "500", NoFlash, TRUE)
            /\ UNCHANGED <<risk_prediction, alert, audit_log>>
       ELSE /\ AuditRoomOr(fails)
            /\ risk_prediction' = risk_prediction (+)
                   SetToBag({[user_id |-> current_user(b), prediction |-> pred,
                              probability |-> prob]})
            /\ alert' = IF AlertNeeded(prob)
                        THEN alert (+) SetToBag({[user_id |-> current_user(b),
                                                  message |-> <<"High diabetes risk", prob>>,
                                                  level |-> "high"]})
                        ELSE alert
            /\ audit_log' = log_audit(audit_log, current_user(b), "prediction_made",
                                      "Risk prediction", <<pred, prob>>, fails)
            /\ resp' = AuditOutcome(Response("api_predict", b, "json", NoFlash, TRUE),
                                    fails)
    /\ UNCHANGED <<user, patient_profile, session, glucose_reading, clock, data_dir, split, sim>>

\* ----------------------------------------------------------- api_forecast
\* A timestamp cell of the CSV, by the shape of its text at instant t:
\*   "iso"     2024-01-01T10:00:00     "isoZ"   2024-01-01T10:00:00Z
\*   "spaced"  2024-1-1 10:00:00       "tsep"   2024-1-1T10:00:00
\*   "bad"     any other text, the empty cell included
\*   "absent"  no timestamp column: row.get('timestamp') is None
TsText(form, t) == [form |-> form, t |-> t]
TsAbsent == TsText("absent", None)
TsBad == TsText("bad", None)
TsCells ==
    {TsAbsent, TsBad, TsText("iso", 2)} \cup
    {TsText(f, 1) : f \in {"iso", "isoZ", "spaced", "tsep"}}

GlucoseCells == {"120", "", "abc"}

\* the rows of the uploaded files: every timestamp cell with a numeric glucose,
\* and every glucose cell with a parsable timestamp
CsvRows ==
    [timestamp : TsCells, glucose : {"120"}] \cup
    [timestamp : {TsText("iso", 1)}, glucose : GlucoseCells]

\* at each datetime.now() the clock has moved on, or not
ClockSteps(rows) ==
    IF \E k \in 1..Len(rows) : rows[k].timestamp.form = "absent" THEN {0, 1} ELSE {0}

RECURSIVE SeqsUpTo(_, _)
SeqsUpTo(S, n) ==
    IF n = 0 THEN {<<>>}
    ELSE SeqsUpTo(S, n - 1) \cup
         {Append(q, x) : q \in {r \in SeqsUpTo(S, n - 1) : Len(r) = n - 1}, x \in S}

\* the second rows of the uploaded files: a timestamp that an earlier row may
\* have had, none, an unparsable one, and a glucose that is no number
SecondRows ==
    {[timestamp |-> TsText("iso", 1), glucose |-> "120"],
     [timestamp |-> TsAbsent, glucose |-> "120"],
     [timestamp |-> TsBad, glucose |-> "120"],
     [timestamp |-> TsText("iso", 1), glucose |-> "abc"]}

\* the uploaded files: no data row, one, or two
CsvFiles ==
    {<<>>} \cup {<<r>> : r \in CsvRows} \cup {<<r, q>> : r \in CsvRows, q \in SecondRows}

ValueError == [ok |-> FALSE, t |-> None, tzinfo |-> "naive", v |-> None]
DateTime(t, tz) == [ok |-> TRUE, t |-> t, tzinfo |-> tz, v |-> None]
Float(v) == [ok |-> TRUE, t |-> None, tzinfo |-> "naive", v |-> v]

\* float(row.get('glucose', '0') or 0)
RowFloat(cell) ==
    IF cell = "" THEN Float(0)
    ELSE IF cell = "120" THEN Float(120)
    ELSE ValueError

\* ts_str.replace('Z', '+00:00')
ReplaceZ(s) == IF s.form = "isoZ" THEN TsText("isoOffset", s.t) ELSE s

\* datetime.fromisoformat
fromisoformat(s) ==
    IF s.form = "iso" THEN DateTime(s.t, "naive")
    ELSE IF s.form = "isoOffset" THEN DateTime(s.t, "utc")
    ELSE ValueError

\* datetime.strptime(ts_str, '%Y-%m-%d %H:%M:%S')
strptimeSpace(s) == IF s.form = "spaced" THEN DateTime(s.t, "naive") ELSE ValueError

\* datetime.strptime(ts_str, '%Y-%m-%dT%H:%M:%S')
strptimeT(s) == IF s.form \in {"iso", "tsep"} THEN DateTime(s.t, "naive") ELSE ValueError

ParseTimestampNow(s, now) ==
    IF fromisoformat(ReplaceZ(s)).ok THEN fromisoformat(ReplaceZ(s))
    ELSE IF strptimeSpace(s).ok THEN strptimeSpace(s)
    ELSE IF strptimeT(s).ok THEN strptimeT(s)
    ELSE DateTime(now, "naive")

\* the try/except chain over a str cell; datetime.now() for a cell that is no str
ParseTimestamp(s, now) ==
    IF s.form = "absent" THEN DateTime(now, "naive")
    ELSE IF fromisoformat(ReplaceZ(s)).ok THEN fromisoformat(ReplaceZ(s))
    ELSE IF strptimeSpace(s).ok THEN strptimeSpace(s)
    ELSE strptimeT(s)

\* the DateTime column of SQLite stores the wall-clock fields and no tzinfo
SqliteDateTime(dt) == dt.t

Reading(uid, ts, glucose, source) ==
    [user_id |-> uid, timestamp |-> ts, glucose |-> glucose, source |-> source]

ExistingCgmNever(table, uid, ts) == FALSE

\* GlucoseReading.query.filter_by(user_id=, timestamp=, source='cgm').first();
\* the query autoflushes, so rows added earlier in the loop are seen
ExistingCgm(table, uid, ts) ==
    \E r \in BagToSet(table) : r.user_id = uid /\ r.timestamp = ts /\ r.source = "cgm"

\* one pass of the storing loop over the parsed readings: the table and the
\* clock after it; adv is what the clock gains at each datetime.now()
RECURSIVE StoreCgm(_, _, _, _, _)
StoreCgm(rows, table, uid, now, adv) ==
    IF rows = <<>> THEN [table |-> table, now |-> now]
    ELSE LET row == Head(rows)
             dt == ParseTimestamp(row.timestamp, now)
             now2 == IF row.timestamp.form = "absent" THEN now + adv ELSE now
         IN IF ~dt.ok THEN StoreCgm(Tail(rows), table, uid, now2, adv)
            ELSE IF ExistingCgm(table, uid, SqliteDateTime(dt))
            THEN StoreCgm(Tail(rows), table, uid, now2, adv)
            ELSE StoreCgm(Tail(rows),
                          table (+) SetToBag({Reading(uid, SqliteDateTime(dt),
                                                      RowFloat(row.glucose).v, "cgm")}),
                          uid, now2, adv)

\* every datetime.now() of the storing loop returns an instant of 1..MaxTime:
\* the first of them returns now, each later one adv more
ReadsInTime(rows, now, adv) ==
    LET n == Cardinality({k \in 1..Len(rows) : rows[k].timestamp.form = "absent"})
    IN n = 0 \/ now + adv * (n - 1) <= MaxTime

\* the count the cgm_uploaded audit event records
UploadedCountStored(rows, before, after) == BagCardinality(after) - BagCardinality(before)

UploadedCount(rows, before, after) == Len(rows)

\* forecast_glucose (ml/forecast.py): a finite sequence of points
ForecastOutputs ==
    {<<>>, <<[timestamp |-> TsText("iso", 2), glucose |-> 110]>>}

RECURSIVE CacheForecast(_, _, _)
CacheForecast(pts, table, uid) ==
    IF pts = <<>> THEN table
    ELSE CacheForecast(Tail(pts),
                       table (+) SetToBag({Reading(uid,
                                               SqliteDateTime(fromisoformat(Head(pts).timestamp)),
                                               Head(pts).glucose, "forecast")}),
                       uid)

ForecastUnchanged == UNCHANGED <<user, patient_profile, session, risk_prediction,
                                 alert, data_dir, split, sim>>

\* POST /api/forecast with a file
ApiForecastFile(b, rows, adv, pts, fails) ==
    /\ IF ~is_authenticated(b)
       THEN /\ resp' = Upload(Response("api_forecast", b, "redirect:login", NoFlash, FALSE),
                                 rows)
            /\ UNCHANGED <<glucose_reading, audit_log, clock>>
       ELSE IF \E k \in 1..Len(rows) : ~RowFloat(rows[k].glucose).ok
       THEN \* float() raises while the readings are being read, outside any try
            /\ resp' = Upload(Response("api_forecast", b, "500", NoFlash, TRUE), rows)
            /\ UNCHANGED <<glucose_reading, audit_log, clock>>
       ELSE LET st == StoreCgm(rows, glucose_reading, current_user(b), clock, adv)
            IN /\ AuditRoomOr(fails)
               /\ ReadsInTime(rows, clock, adv)
               /\ BagCardinality(CacheForecast(pts, st.table, current_user(b)))
                      <= MaxReadings
               /\ glucose_reading' = CacheForecast(pts, st.table, current_user(b))
               /\ audit_log' = log_audit(audit_log, current_user(b), "cgm_uploaded",
                                         "CGM data uploaded",
                                         UploadedCount(rows, glucose_reading, st.table),
                                         fails)
               /\ clock' = st.now
               /\ resp' = AuditOutcome(Upload(Response("api_forecast", b, "json",
                                                       "cgm_stored", TRUE), rows), fails)
    /\ ForecastUnchanged

\* POST /api/forecast with a JSON body
ApiForecastJson(b, pts) ==
    /\ IF ~is_authenticated(b)
       THEN /\ resp' = Response("api_forecast", b, "redirect:login", NoFlash, FALSE)
            /\ UNCHANGED glucose_reading
       ELSE /\ BagCardinality(CacheForecast(pts, glucose_reading, current_user(b)))
                   <= MaxReadings
            /\ glucose_reading' = CacheForecast(pts, glucose_reading, current_user(b))
            /\ resp' = Response("api_forecast", b, "json", NoFlash, TRUE)
    /\ UNCHANGED <<audit_log, clock>>
    /\ ForecastUnchanged

\* POST /api/forecast with neither
ApiForecastEmpty(b) ==
    /\ resp' = IF ~is_authenticated(b)
               THEN Response("api_forecast", b, "redirect:login", NoFlash, FALSE)
               ELSE Response("api_forecast", b, "400", "No data provided", TRUE)
    /\ UNCHANGED <<glucose_reading, audit_log, clock>>
    /\ ForecastUnchanged

\* time passes between requests
Tick ==
    /\ clock < MaxTime
    /\ clock' = clock + 1
    /\ UNCHANGED <<user, patient_profile, audit_log, risk_prediction, alert,
                   glucose_reading, session, resp, data_dir, split, sim>>

\* ------------------------------------------------- the data directory
RowValues == {"x", "y"}
Datasets == SeqsUpTo(RowValues, MaxRows)

File(rows) == [exists |-> TRUE, rows |-> rows]
Missing == [exists |-> FALSE, rows |-> <<>>]
Stale == File(<<"stale">>)

\* df.iloc[start:end]: the rows at the 0-based positions start..end-1
Iloc(df, start, end) ==
    SubSeq(df, start + 1, IF end <= Len(df) THEN end ELSE Len(df))

ChunkSize(n, k) == n \div k

StartIdxOneBased(i, n, k) == i * ChunkSize(n, k)

\* start_idx = (i - 1) * chunk_size
StartIdx(i, n, k) == (i - 1) * ChunkSize(n, k)

EndIdxNoRemainder(i, n, k) == StartIdx(i, n, k) + ChunkSize(n, k)

\* end_idx = start_idx + chunk_size if i < num_clients else len(df)
EndIdx(i, n, k) == IF i < k THEN StartIdx(i, n, k) + ChunkSize(n, k) ELSE n

ClientDf(df, i, k) == Iloc(df, StartIdx(i, Len(df), k), EndIdx(i, Len(df), k))

\* ------------------------------------------- create_client_data_files
SplitVarsUnchanged == UNCHANGED <<user, patient_profile, audit_log, risk_prediction,
                                  alert, glucose_reading, session, resp, clock, sim>>

\* the check that the main data file exists, and pd.read_csv
SplitLoad ==
    /\ split.pc = "load"
    /\ split' = IF data_dir.main.exists
                THEN [split EXCEPT !.pc = "loop", !.df = data_dir.main.rows, !.i = 1]
                ELSE [split EXCEPT !.pc = "done", !.result = "False"]
    /\ UNCHANGED data_dir
    /\ SplitVarsUnchanged

\* one iteration of the loop: client_df.to_csv(client_file)
SplitWrite ==
    /\ split.pc = "loop"
    /\ split.i <= split.num_clients
    /\ data_dir' = [data_dir EXCEPT
                      !.shards[split.i] = File(ClientDf(split.df, split.i, split.num_clients))]
    /\ split' = [split EXCEPT
                   !.i = split.i + 1,
                   !.ranges = Append(split.ranges,
                                     <<StartIdx(split.i, Len(split.df), split.num_clients),
                                       EndIdx(split.i, Len(split.df), split.num_clients)>>)]
    /\ SplitVarsUnchanged

SplitReturn ==
    /\ split.pc = "loop"
    /\ split.i > split.num_clients
    /\ split' = [split EXCEPT !.pc = "done", !.result = "True"]
    /\ UNCHANGED data_dir
    /\ SplitVarsUnchanged

\* ------------------------------------------ simulate_federated_learning
SimVarsUnchanged == UNCHANGED <<user, patient_profile, audit_log, risk_prediction,
                                alert, glucose_reading, session, resp, clock, split>>

Children == {0} \cup (1..MaxClients)   \* 0 is the server, i is client i

\* the loop over the clients that makes a missing shard from the main dataset
SimEnsure ==
    /\ sim.pc = "ensure"
    /\ sim.i <= sim.num_clients
    /\ data_dir' =
          IF ~data_dir.shards[sim.i].exists /\ data_dir.main.exists
          THEN [data_dir EXCEPT
                  !.shards[sim.i] = File(ClientDf(data_dir.main.rows, sim.i, sim.num_clients))]
          ELSE data_dir
    /\ sim' = [sim EXCEPT !.i = sim.i + 1]
    /\ SimVarsUnchanged

\* subprocess.Popen of the server, then time.sleep(3)
SimStartServer ==
    /\ sim.pc = "ensure"
    /\ sim.i > sim.num_clients
    /\ sim' = [sim EXCEPT !.pc = "sleep", !.child[0] = "running"]
    /\ UNCHANGED data_dir
    /\ SimVarsUnchanged

SimSleepDone ==
    /\ sim.pc = "sleep"
    /\ sim' = [sim EXCEPT !.pc = "start_clients", !.i = 1]
    /\ UNCHANGED data_dir
    /\ SimVarsUnchanged

\* subprocess.Popen of client i, then time.sleep(1)
SimStartClient ==
    /\ sim.pc = "start_clients"
    /\ sim.i <= sim.num_clients
    /\ sim' = [sim EXCEPT !.child[sim.i] = "running", !.i = sim.i + 1,
                          !.shard_seen[sim.i] = data_dir.shards[sim.i].exists]
    /\ UNCHANGED data_dir
    /\ SimVarsUnchanged

SimClientsStarted ==
    /\ sim.pc = "start_clients"
    /\ sim.i > sim.num_clients
    /\ sim' = [sim EXCEPT !.pc = "wait_server"]
    /\ UNCHANGED data_dir
    /\ SimVarsUnchanged

\* a child process ends by itself
ChildExits(c) ==
    /\ sim.child[c] = "running"
    /\ sim.pc \notin {"returned", "exited"}
    /\ sim' = [sim EXCEPT !.child[c] = "exited"]
    /\ UNCHANGED data_dir
    /\ SimVarsUnchanged

\* server_process.wait(timeout=300) returns
SimServerWaited ==
    /\ sim.pc = "wait_server"
    /\ sim.child[0] = "exited"
    /\ sim' = [sim EXCEPT !.pc = "wait_clients", !.i = 1]
    /\ UNCHANGED data_dir
    /\ SimVarsUnchanged

\* client_process.wait(timeout=60) returns
SimClientWaited ==
    /\ sim.pc = "wait_clients"
    /\ sim.i <= sim.num_clients
    /\ sim.child[sim.i] = "exited"
    /\ sim' = [sim EXCEPT !.i = sim.i + 1]
    /\ UNCHANGED data_dir
    /\ SimVarsUnchanged

SimComplete ==
    /\ sim.pc = "wait_clients"
    /\ sim.i > sim.num_clients
    /\ sim' = [sim EXCEPT !.pc = "returned", !.cause = "complete"]
    /\ UNCHANGED data_dir
    /\ SimVarsUnchanged

Waiting ==
    \/ sim.pc = "wait_server" /\ sim.child[0] = "running"
    \/ sim.pc = "wait_clients" /\ sim.i <= sim.num_clients /\ sim.child[sim.i] = "running"

\* a wait raises TimeoutExpired: the first handler is entered
SimTimeout ==
    /\ Waiting
    /\ sim' = [sim EXCEPT !.pc = "handler", !.cause = "timeout", !.i = 0]
    /\ UNCHANGED data_dir
    /\ SimVarsUnchanged

InTry == sim.pc \in {"wait_server", "wait_clients"}

\* KeyboardInterrupt inside the try block: the second handler is entered
SimInterruptInTry ==
    /\ InTry
    /\ sim' = [sim EXCEPT !.pc = "handler", !.cause = "interrupt", !.i = 0]
    /\ UNCHANGED data_dir
    /\ SimVarsUnchanged

\* in either handler: server_process.terminate(), then client_process.terminate()
\* for one client of client_processes after the other
SimTerminate ==
    /\ sim.pc = "handler"
    /\ sim.i <= sim.num_clients
    /\ sim' = [sim EXCEPT !.terminated[sim.i] = TRUE, !.i = sim.i + 1]
    /\ UNCHANGED data_dir
    /\ SimVarsUnchanged

\* the handler has run to its end and the function returns
SimHandlerDone ==
    /\ sim.pc = "handler"
    /\ sim.i > sim.num_clients
    /\ sim' = [sim EXCEPT !.pc = "returned"]
    /\ UNCHANGED data_dir
    /\ SimVarsUnchanged

\* KeyboardInterrupt while a handler runs: no clause of the same try catches
\* it, it propagates out of the function with the rest of the handler not run
SimInterruptInHandler ==
    /\ sim.pc = "handler"
    /\ sim' = [sim EXCEPT !.pc = "exited", !.cause = "interrupt"]
    /\ UNCHANGED data_dir
    /\ SimVarsUnchanged

\* KeyboardInterrupt outside the try block: it propagates out of the function
SimInterruptOutside ==
    /\ sim.pc \in {"ensure", "sleep", "start_clients"}
    /\ sim' = [sim EXCEPT !.pc = "exited", !.cause = "interrupt"]
    /\ UNCHANGED data_dir
    /\ SimVarsUnchanged

\* ---------------------------------------------------------- specifications
SplitIdle == [pc |-> "idle", num_clients |-> 1, df |-> <<>>, i |-> 1,
              ranges |-> <<>>, result |-> "None"]

SimIdle == [pc |-> "idle", num_clients |-> 1, i |-> 1, cause |-> "None",
            child |-> [c \in Children |-> "none"],
            terminated |-> [c \in Children |-> FALSE],
            shard_seen |-> [c \in 1..MaxClients |-> FALSE]]

EmptyDir == [main |-> Missing, shards |-> [c \in 1..MaxClients |-> Missing]]

\* the application started: db.create_all(), seed_defaults(), nobody logged in
WebInit ==
    /\ user = SeedUsers(EmptyTable)
    /\ patient_profile = SeedProfiles(EmptyTable, EmptyTable)
    /\ audit_log = <<>>
    /\ risk_prediction = EmptyBag
    /\ alert = EmptyBag
    /\ glucose_reading = EmptyBag
    /\ session = [b \in Browsers |-> None]
    /\ resp = Response("start", "cli", "done", NoFlash, FALSE)
    /\ clock = 1

Init ==
    /\ WebInit
    /\ data_dir = EmptyDir
    /\ split = SplitIdle
    /\ sim = SimIdle

\* the accounts: logging in, registering, the administrator's creating and
\* deleting of users, seeding; one browser is enough to drive them. Here and
\* in the three specifications after it the audit writes succeed; SpecLogin
\* and SpecAudit take the failing ones
Next ==
    \/ \E b \in OneBrowser, email \in Emails, password \in LoginPasswords :
          Login(b, email, password, FALSE)
    \/ \E b \in OneBrowser, email \in FormEmails, f \in RegisterForms :
          Register(b, email, f.password, f.confirm, f.first, f.last, FALSE)
    \/ \E b \in OneBrowser, email \in FormEmails, password \in FormPasswords :
          CreateClinician(b, email, password, FALSE)
    \/ \E b \in OneBrowser, id \in 1..(MaxUsers + 1) :
          DeleteUser(b, id, FALSE)
    \/ SeedDefaults

Spec == Init /\ [][Next]_vars

\* sessions and the role-gated routes
NextGate ==
    \/ \E b \in Browsers, email \in Emails, password \in LoginPasswords :
          Login(b, email, password, FALSE)
    \/ \E b \in Browsers : Logout(b, FALSE)
    \/ \E b \in Browsers : PatientDashboard(b)
    \/ \E b \in Browsers : ClinicianDashboard(b)
    \/ \E b \in Browsers : ExportPatientCsv(b)
    \/ \E b \in Browsers : AdminDashboard(b)
    \/ \E b \in Browsers, email \in FormEmails, password \in FormPasswords :
          CreateClinician(b, email, password, FALSE)
    \/ \E b \in Browsers, id \in 1..(MaxUsers + 1) :
          DeleteUser(b, id, FALSE)

SpecGate == Init /\ [][NextGate]_vars

\* the prediction API
NextPredict ==
    \/ \E b \in Browsers, email \in Emails, password \in LoginPasswords :
          Login(b, email, password, FALSE)
    \/ \E b \in Browsers, raises \in BOOLEAN, pred \in Preds, prob \in Probs :
          ApiPredict(b, raises, pred, prob, FALSE)

SpecPredict == Init /\ [][NextPredict]_vars

\* the forecast API and CGM ingestion, from one browser, by the seeded patient
NextForecast ==
    \/ \E b \in OneBrowser, email \in {"patient@example.com"},
          password \in {"password123"} :
          Login(b, email, password, FALSE)
    \/ \E b \in OneBrowser, rows \in CsvFiles, pts \in ForecastOutputs :
          \E adv \in ClockSteps(rows) :
          ApiForecastFile(b, rows, adv, pts, FALSE)
    \/ \E b \in OneBrowser, pts \in ForecastOutputs : ApiForecastJson(b, pts)
    \/ \E b \in OneBrowser : ApiForecastEmpty(b)
    \/ Tick

SpecForecast == Init /\ [][NextForecast]_vars

\* logging in and out from one browser, with and without a password field,
\* the audit write succeeding or failing
NextLogin ==
    \/ \E b \in OneBrowser, email \in Emails, password \in LoginFields,
          fails \in BOOLEAN :
          Login(b, email, password, fails)
    \/ \E b \in OneBrowser, fails \in BOOLEAN : Logout(b, fails)

SpecLogin == Init /\ [][NextLogin]_vars

\* the partitioning utility, run on any data directory
InitSplit ==
    /\ WebInit
    /\ sim = SimIdle
    /\ \E main \in {Missing} \cup {File(d) : d \in Datasets},
          shards \in [1..MaxClients -> {Missing, Stale}], k \in 1..MaxClients :
          /\ data_dir = [main |-> main, shards |-> shards]
          /\ split = [SplitIdle EXCEPT !.pc = "load", !.num_clients = k]

NextSplit == SplitLoad \/ SplitWrite \/ SplitReturn

SpecSplit == InitSplit /\ [][NextSplit]_vars

\* the main dataset of the simulation: MaxRows rows, neighbours differing
SimDataset == [r \in 1..MaxRows |-> IF r % 2 = 1 THEN "x" ELSE "y"]

\* the simulation driver, run on any data directory
InitSim ==
    /\ WebInit
    /\ split = SplitIdle
    /\ \E main \in {Missing, File(SimDataset)},
          shards \in [1..MaxClients -> {Missing, Stale}], n \in 1..MaxClients :
          /\ data_dir = [main |-> main, shards |-> shards]
          /\ sim = [SimIdle EXCEPT !.pc = "ensure", !.num_clients = n]

NextSim ==
    \/ SimEnsure \/ SimStartServer \/ SimSleepDone \/ SimStartClient
    \/ SimClientsStarted \/ SimServerWaited \/ SimClientWaited \/ SimComplete
    \/ SimTimeout \/ SimInterruptInTry \/ SimInterruptOutside
    \/ SimTerminate \/ SimHandlerDone \/ SimInterruptInHandler
    \/ \E c \in Children : ChildExits(c)

SpecSim == InitSim /\ [][NextSim]_vars

\* ------------------------------------------------- the database session
\* The handlers once more, at the grain of db.session: what is pending in the
\* session and what is committed, with the audit write able to fail.
Db ==
    [user |-> user, patient_profile |-> patient_profile, audit_log |-> audit_log,
     risk_prediction |-> risk_prediction, alert |-> alert,
     glucose_reading |-> glucose_reading]

\* the session at the start of a request: nothing pending
Begin == [committed |-> Db, pending |-> Db]

CommitOmitted(tx) == tx

\* db.session.commit()
Commit(tx) == [tx EXCEPT !.committed = tx.pending]

\* db.session.rollback()
Rollback(tx) == [tx EXCEPT !.pending = tx.committed]

\* log_audit: add the entry and commit; on an exception, roll back
log_audit_tx(tx, user_id, action, text, arg, fails) ==
    IF fails THEN Rollback(tx)
    ELSE Commit([tx EXCEPT !.pending.audit_log =
                                log_audit(@, user_id, action, text, arg, FALSE)])

\* the end of the request: the session is removed, what is committed stays
Teardown(tx) ==
    /\ user' = tx.committed.user
    /\ patient_profile' = tx.committed.patient_profile
    /\ audit_log' = tx.committed.audit_log
    /\ risk_prediction' = tx.committed.risk_prediction
    /\ alert' = tx.committed.alert
    /\ glucose_reading' = tx.committed.glucose_reading

\* an audit write that succeeds needs room in the bounded table
AuditWrite(fails) == fails \/ Len(audit_log) < MaxAuditLong

LoginTx(b, email, password, fails) ==
    IF PasswordRaises(email, password) THEN ~fails /\ Login(b, email, password, FALSE)
    ELSE
    /\ AuditWrite(fails)
    /\ IF LoginOk(email, password)
       THEN /\ session' = [session EXCEPT ![b] = UserByEmail(user, email)]
            /\ Teardown(log_audit_tx(Begin, UserByEmail(user, email), "user_login",
                                     "logged in", email, fails))
            /\ resp' = AuditOutcome(Response("login", b, "redirect:index", NoFlash, TRUE),
                                    fails)
       ELSE /\ session' = session
            /\ Teardown(log_audit_tx(Begin, FailedLoginUser(email), "login_failed",
                                     "Failed login attempt", email, fails))
            /\ resp' = AuditOutcome(Response("login", b, "render:login.html",
                                             "Invalid credentials", TRUE), fails)
    /\ UNCHANGED <<clock, data_dir, split, sim>>

LogoutTx(b, fails) ==
    IF ~is_authenticated(b) THEN ~fails /\ Logout(b, FALSE)
    ELSE /\ AuditWrite(fails)
         /\ Teardown(log_audit_tx(Begin, current_user(b), "user_logout", "logged out",
                                  user[current_user(b)].email, fails))
         /\ session' = [session EXCEPT ![b] = None]
         /\ resp' = AuditOutcome(Response("logout", b, "redirect:login", NoFlash, TRUE),
                                 fails)
         /\ UNCHANGED <<clock, data_dir, split, sim>>

RegisterTx(b, email, password, confirm, first, last, fails) ==
    IF RegisterInvalid(email, password, confirm, first, last) \/ EmailTaken(email)
    THEN ~fails /\ Register(b, email, password, confirm, first, last, FALSE)
    ELSE LET added == [Begin EXCEPT
                          !.pending.user =
                              Insert(@, [email |-> email, role |-> "patient",
                                         password_hash |-> generate_password_hash(password)]),
                          !.pending.patient_profile =
                              Insert(@, [user_id |-> NextId(user),
                                         first_name |-> Strip(first),
                                         last_name |-> Strip(last),
                                         name |-> <<Strip(first), Strip(last)>>])]
         IN /\ Cardinality(DOMAIN user) < MaxUsers
            /\ AuditWrite(fails)
            /\ Teardown(log_audit_tx(Commit(added), NextId(user), "user_register",
                                     "New patient registered", email, fails))
            /\ resp' = AuditOutcome(Response("register", b, "redirect:login",
                                             "Registration successful", TRUE), fails)
            /\ UNCHANGED <<session, clock, data_dir, split, sim>>

ApiPredictTx(b, raises, pred, prob, fails) ==
    IF ~is_authenticated(b) \/ raises THEN ~fails /\ ApiPredict(b, raises, pred, prob, FALSE)
    ELSE LET predicted == Commit([Begin EXCEPT
                 !.pending.risk_prediction =
                     @ (+) SetToBag({[user_id |-> current_user(b), prediction |-> pred,
                                      probability |-> prob]})])
             alerted == IF AlertNeeded(prob)
                        THEN Commit([predicted EXCEPT
                                 !.pending.alert =
                                     @ (+) SetToBag({[user_id |-> current_user(b),
                                                      message |-> <<"High diabetes risk", prob>>,
                                                      level |-> "high"]})])
                        ELSE predicted
         IN /\ AuditWrite(fails)
            /\ BagCardinality(risk_prediction) < MaxPredictions
            /\ Teardown(log_audit_tx(alerted, current_user(b), "prediction_made",
                                     "Risk prediction", <<pred, prob>>, fails))
            /\ resp' = AuditOutcome(Response("api_predict", b, "json", NoFlash, TRUE), fails)
            /\ UNCHANGED <<session, clock, data_dir, split, sim>>

ApiForecastFileTx(b, rows, adv, pts, fails) ==
    IF ~is_authenticated(b) \/ \E k \in 1..Len(rows) : ~RowFloat(rows[k].glucose).ok
    THEN ~fails /\ ApiForecastFile(b, rows, adv, pts, FALSE)
    ELSE LET st == StoreCgm(rows, glucose_reading, current_user(b), clock, adv)
             stored == Commit([Begin EXCEPT !.pending.glucose_reading = st.table])
             logged == log_audit_tx(stored, current_user(b), "cgm_uploaded",
                                    "CGM data uploaded",
                                    UploadedCount(rows, glucose_reading, st.table), fails)
             cached == Commit([logged EXCEPT
                          !.pending.glucose_reading =
                              CacheForecast(pts, @, current_user(b))])
         IN /\ AuditWrite(fails)
            /\ ReadsInTime(rows, clock, adv)
            /\ BagCardinality(cached.pending.glucose_reading) <= MaxReadings
            /\ Teardown(cached)
            /\ clock' = st.now
            /\ resp' = AuditOutcome(Upload(Response("api_forecast", b, "json",
                                                    "cgm_stored", TRUE), rows), fails)
            /\ UNCHANGED <<session, data_dir, split, sim>>

CreateClinicianTx(b, email, password, fails) ==
    IF Gate(b, {"admin"}) # "ok" \/ ClinicianInvalid(email, password) \/ EmailTaken(email)
    THEN ~fails /\ CreateClinician(b, email, password, FALSE)
    ELSE LET added == [Begin EXCEPT
                          !.pending.user =
                              Insert(@, [email |-> email, role |-> "clinician",
                                         password_hash |-> generate_password_hash(password)])]
         IN /\ Cardinality(DOMAIN user) < MaxUsers
            /\ AuditWrite(fails)
            /\ Teardown(log_audit_tx(Commit(added), current_user(b), "clinician_created",
                                     "Admin created clinician", email, fails))
            /\ resp' = AuditOutcome(Response("create_clinician", b,
                                             "redirect:admin_dashboard",
                                             "created successfully", TRUE), fails)
            /\ UNCHANGED <<session, clock, data_dir, split, sim>>

DeleteUserTx(b, user_id, fails) ==
    IF \/ Gate(b, {"admin"}) # "ok"
       \/ user_id \notin DOMAIN user
       \/ user_id = current_user(b)
       \/ HasProfile(user_id)
    THEN ~fails /\ DeleteUser(b, user_id, FALSE)
    ELSE LET deleted == [Begin EXCEPT !.pending.user = Delete(@, user_id),
                                      !.pending.audit_log = OrphanAudit(@, user_id)]
         IN /\ AuditWrite(fails)
            /\ Teardown(log_audit_tx(Commit(deleted), current_user(b), "user_deleted",
                                     "Admin deleted user", user[user_id].email, fails))
            /\ resp' = AuditOutcome(Response("delete_user", b, "redirect:admin_dashboard",
                                             "deleted successfully", TRUE), fails)
            /\ UNCHANGED <<session, clock, data_dir, split, sim>>

\* the file that drives the upload
AuditFiles == {<<[timestamp |-> TsText("iso", 1), glucose |-> "120"]>>}

ValidForm == [password |-> "password123", confirm |-> "password123",
              first |-> "Ann", last |-> "Lee"]

\* every route that calls log_audit, driven by the administrator from one
\* browser, the audit write failing or not
NextAudit ==
    \/ \E b \in OneBrowser, password \in LoginPasswords, fails \in BOOLEAN :
          LoginTx(b, "admin@example.com", password, fails)
    \/ \E b \in OneBrowser, fails \in BOOLEAN : LogoutTx(b, fails)
    \/ \E b \in OneBrowser, f \in {ValidForm}, fails \in BOOLEAN :
          RegisterTx(b, "new@example.com", f.password, f.confirm, f.first, f.last, fails)
    \/ \E b \in OneBrowser, prob \in {69, 70}, fails \in BOOLEAN :
          ApiPredictTx(b, FALSE, 1, prob, fails)
    \/ \E b \in OneBrowser, rows \in AuditFiles, pts \in ForecastOutputs,
          fails \in BOOLEAN :
          ApiForecastFileTx(b, rows, 0, pts, fails)
    \/ \E b \in OneBrowser, fails \in BOOLEAN :
          CreateClinicianTx(b, "new@example.com", "password123", fails)
    \/ \E b \in OneBrowser, id \in 1..(MaxUsers + 1), fails \in BOOLEAN :
          DeleteUserTx(b, id, fails)

\* at most MaxAuditOk audit entries are written
NextAuditBounded == NextAudit /\ Len(audit_log') <= MaxAuditOk

SpecAudit == Init /\ [][NextAuditBounded]_vars

\* a session that outlives its user: the administrator in one browser creates
\* and deletes accounts, the account created logs in and sends requests from
\* another, and anybody registers
NextStale ==
    \/ LoginTx("b1", "admin@example.com", "admin123", FALSE)
    \/ LoginTx("b2", "new@example.com", "password123", FALSE)
    \/ CreateClinicianTx("b1", "new@example.com", "password123", FALSE)
    \/ \E id \in 1..(MaxUsers + 1) : DeleteUserTx("b1", id, FALSE)
    \/ RegisterTx("b1", "new@example.com", ValidForm.password, ValidForm.confirm,
                  ValidForm.first, ValidForm.last, FALSE)
    \/ \E prob \in {69, 70} : ApiPredictTx("b2", FALSE, 1, prob, FALSE)
    \/ ClinicianDashboard("b2")
    \/ PatientDashboard("b2")

SpecStale == Init /\ [][NextStale]_vars

\* ================================================================= claims
Last(q) == q[Len(q)]

\* the rows of a bag that satisfy Test, counted with their multiplicity
CountWhere(bag, Test(_)) ==
    BagCardinality([r \in {x \in BagToSet(bag) : Test(x)} |-> bag[r]])

\* ----------------------------------------------------------------- C2
HighAlertsOf(bag, uid) ==
    LET Test(r) == r.user_id = uid /\ r.level = "high" IN CountWhere(bag, Test)

AlertsOf(bag, uid) ==
    LET Test(r) == r.user_id = uid IN CountWhere(bag, Test)

PredictionsOf(bag, uid) ==
    LET Test(r) == r.user_id = uid IN CountWhere(bag, Test)

HighPredictionsOf(bag, uid) ==
    LET Test(r) == r.user_id = uid /\ r.probability >= 70 IN CountWhere(bag, Test)

UserIds == 1..(MaxUsers + 1)

\* a predict request that the model answers adds one RiskPrediction of the
\* current user, and one high Alert exactly when the probability is >= 0.70
C2_PredictStep ==
    resp'.route = "api_predict" =>
    \A b \in {resp'.browser}, pred \in Preds, prob \in Probs :
        (is_authenticated(b) /\ ApiPredict(b, FALSE, pred, prob, resp'.audit_failed)) =>
            /\ BagCardinality(risk_prediction') = BagCardinality(risk_prediction) + 1
            /\ PredictionsOf(risk_prediction', current_user(b))
                  = PredictionsOf(risk_prediction, current_user(b)) + 1
            /\ BagCardinality(alert')
                  = BagCardinality(alert) + (IF prob >= 70 THEN 1 ELSE 0)
            /\ HighAlertsOf(alert', current_user(b))
                  = HighAlertsOf(alert, current_user(b)) + (IF prob >= 70 THEN 1 ELSE 0)

\* every user's alerts are as many as that user's predictions of probability >= 0.70
C2_AlertCount ==
    \A uid \in UserIds :
        /\ AlertsOf(alert, uid) = HighPredictionsOf(risk_prediction, uid)
        /\ AlertsOf(alert, uid) = HighAlertsOf(alert, uid)

\* C2: every POST /api/predict creates exactly one RiskPrediction for the
\* current user, and one Alert of level high when the probability is >= 0.70
\* and none below; so each user's alerts number that user's predictions of
\* probability >= 0.70, a repeated high prediction adding an alert each time.
C2_Theorem == [][C2_PredictStep]_vars /\ []C2_AlertCount

\* a user with two alerts for two equal high predictions, and a prediction
\* of 0.69 that raised none
C2_Witness ==
    \E uid \in UserIds :
        /\ \E r \in BagToSet(alert) : r.user_id = uid /\ alert[r] = 2
        /\ AlertsOf(alert, uid) = 2
        /\ resp.route = "api_predict" /\ resp.result = "json"

\* ----------------------------------------------------------------- C3
Succeeds(email, password) ==
    \E id \in DOMAIN user :
        /\ user[id].email = email
        /\ user[id].password_hash = generate_password_hash(password)

IsPrefix(q, r) == Len(q) <= Len(r) /\ \A k \in 1..Len(q) : q[k] = r[k]

\* what C3 asks of a POST /login
C3_Outcome(b, email, password) ==
    /\ Len(audit_log') = Len(audit_log) + 1
    /\ IsPrefix(audit_log, audit_log')
    /\ IF Succeeds(email, password)
       THEN /\ Last(audit_log').action = "user_login"
            /\ session'[b] \in DOMAIN user
            /\ user[session'[b]].email = email
            /\ Last(audit_log').user_id = session'[b]
       ELSE /\ Last(audit_log').action = "login_failed"
            /\ Last(audit_log').user_id = None
            /\ session' = session

C3_LoginStep ==
    resp'.route = "login" =>
    \A b \in {resp'.browser}, email \in Emails, password \in LoginFields :
        Login(b, email, password, resp'.audit_failed) => C3_Outcome(b, email, password)

\* C3: a successful POST /login creates exactly one audit entry, of action
\* user_login, and no login_failed entry; a failed one creates exactly one
\* entry, of action login_failed and with no user reference, and leaves the
\* sessions as they were.
C3_Original == [][C3_LoginStep]_vars

\* what does hold: the entry is written when the form carries a password and
\* the audit write succeeds; a failed audit write leaves the log as it was and
\* the login as it went; a known email without a password field is answered
\* with a 500, no entry and no session
C3_WrittenStep ==
    resp'.route = "login" =>
    \A b \in {resp'.browser}, email \in Emails, password \in LoginFields :
        Login(b, email, password, resp'.audit_failed) =>
            IF PasswordRaises(email, password)
            THEN resp'.result = "500" /\ audit_log' = audit_log /\ session' = session
            ELSE IF resp'.audit_failed
            THEN /\ audit_log' = audit_log
                 /\ IF Succeeds(email, password)
                    THEN session'[b] = UserByEmail(user, email)
                    ELSE session' = session
            ELSE C3_Outcome(b, email, password)

C3_WhenWritten == [][C3_WrittenStep]_vars

\* ----------------------------------------------------------------- C4
EmailPresent(email) == \E id \in DOMAIN user : user[id].email = email

FormValid(f) == ~RegisterInvalid("someone@example.com", f.password, f.confirm, f.first, f.last)

C4_UniqueEmails ==
    \A i \in DOMAIN user, j \in DOMAIN user : user[i].email = user[j].email => i = j

C4_RegisterTakenStep ==
    resp'.route = "register" =>
    \A email \in Emails, f \in RegisterForms :
        (EmailPresent(email)
            /\ Register(resp'.browser, email, f.password, f.confirm, f.first, f.last,
                        resp'.audit_failed)) =>
            /\ user' = user
            /\ patient_profile' = patient_profile
            /\ resp'.result = IF FormValid(f) THEN "redirect:login"
                              ELSE "render:register.html"

C4_RegisterTakenRedirects ==
    resp'.route = "register" =>
    \A email \in Emails, f \in RegisterForms :
        (EmailPresent(email)
            /\ Register(resp'.browser, email, f.password, f.confirm, f.first, f.last,
                        resp'.audit_failed)) =>
            /\ user' = user
            /\ patient_profile' = patient_profile
            /\ resp'.result = "redirect:login"

\* C4 as stated: no two users share an email, and a POST /register with an
\* email already in storage creates no User and no PatientProfile and is
\* redirected to login.
C4_Original == []C4_UniqueEmails /\ [][C4_RegisterTakenRedirects]_vars

\* C4 as amended: no two users share an email, and a POST /register with an
\* email already in storage creates no User and no PatientProfile; it is
\* redirected to login when the rest of the form passes validation, and is
\* answered with the registration form again when it does not.
C4_Theorem == []C4_UniqueEmails /\ [][C4_RegisterTakenStep]_vars

\* a registration refused for its email, after another user was added
C4_Witness ==
    /\ resp.route = "register"
    /\ resp.result = "redirect:login"
    /\ resp.flash = "Email already registered"
    /\ Cardinality(DOMAIN user) = 4

\* ----------------------------------------------------------------- C6
GatedRoutes == {"patient_dashboard", "clinician_dashboard", "export_patient_csv",
                "admin_dashboard", "create_clinician", "delete_user"}

RequiredRole(route) ==
    IF route = "patient_dashboard" THEN "patient"
    ELSE IF route \in {"clinician_dashboard", "export_patient_csv"} THEN "clinician"
    ELSE "admin"

Tables == <<user, patient_profile, audit_log, risk_prediction, alert, glucose_reading>>

C6_GateStep ==
    resp'.route \in GatedRoutes =>
        LET b == resp'.browser
            need == RequiredRole(resp'.route)
        IN /\ resp'.body => (session[b] \in DOMAIN user /\ user[session[b]].role = need)
           /\ session[b] \notin DOMAIN user =>
                 /\ resp'.result = "redirect:login"
                 /\ ~resp'.body
                 /\ UNCHANGED Tables
           /\ (session[b] \in DOMAIN user /\ user[session[b]].role # need) =>
                 /\ resp'.result = "redirect:index"
                 /\ resp'.flash = "Unauthorized"
                 /\ ~resp'.body
                 /\ UNCHANGED Tables

\* C6: the body of a patient-only, clinician-only or admin-only route runs only
\* for a request whose session is that of a user whose stored role is the
\* required one; a request without such a session is redirected to login, one
\* of a user with another role to the landing route with a warning, and
\* neither reads or writes any data.
C6_Theorem == [][C6_GateStep]_vars

\* a logged-in user with another role was turned away from an admin-only route
C6_Witness ==
    /\ resp.route \in {"create_clinician", "delete_user"}
    /\ resp.result = "redirect:index"
    /\ resp.flash = "Unauthorized"
    /\ session[resp.browser] \in DOMAIN user
    /\ user[session[resp.browser]].role # "admin"

\* ----------------------------------------------------------------- C5
\* the rows of df at the 0-based positions lo..hi-1
RowsBetween(df, lo, hi) == [j \in 1..(hi - lo) |-> df[lo + j]]

RECURSIVE ConcatShards(_, _)
ConcatShards(shards, k) ==
    IF k = 0 THEN <<>> ELSE ConcatShards(shards, k - 1) \o shards[k].rows

SplitDone == split.pc = "done" /\ split.result = "True"

C5_Shards ==
    SplitDone =>
        LET df == split.df
            n == Len(split.df)
            k == split.num_clients
            c == n \div k
        IN /\ \A i \in 1..k :
                /\ data_dir.shards[i].exists
                /\ data_dir.shards[i].rows =
                      IF i < k THEN RowsBetween(df, (i - 1) * c, i * c)
                      ELSE RowsBetween(df, (k - 1) * c, n)
                /\ split.ranges[i] = IF i < k THEN <<(i - 1) * c, i * c>>
                                     ELSE <<(k - 1) * c, n>>
           /\ Len(split.ranges) = k
           /\ \A i \in 1..k, j \in 1..k :
                 i < j => split.ranges[i][2] <= split.ranges[j][1]
           /\ ConcatShards(data_dir.shards, k) = df
           /\ df = data_dir.main.rows

\* C5: for a dataset of n rows and k >= 1 clients, create_client_data_files
\* writes k shards, shard i < k holding the rows [(i-1)*(n div k), i*(n div k))
\* and shard k the rows [(k-1)*(n div k), n); the shards do not overlap and
\* their concatenation, in order, is the dataset.
C5_Theorem == C5_Shards

\* 4 rows over 3 clients: shards of 1, 1 and 2 rows
C5_Witness ==
    /\ SplitDone
    /\ Len(split.df) = 4 /\ split.num_clients = 3
    /\ Len(data_dir.shards[1].rows) = 1
    /\ Len(data_dir.shards[2].rows) = 1
    /\ Len(data_dir.shards[3].rows) = 2
    /\ data_dir.shards[3].rows = <<"x", "y">>

\* ----------------------------------------------------------------- C7
Launched(c) == sim.child[c] # "none"

\* C7: when a wait on the server or on a client times out, or a
\* KeyboardInterrupt arrives at any point after the server was launched, every
\* child that was launched has been sent a terminate by the time
\* simulate_federated_learning returns or exits.
C7_Original ==
    (sim.pc \in {"returned", "exited"} /\ sim.cause \in {"timeout", "interrupt"}) =>
        \A c \in Children : Launched(c) => sim.terminated[c]

\* what the handlers do give: after a timeout or an interrupt inside the try
\* block, a handler that runs to its end has sent every launched child a
\* terminate
C7_InsideTry ==
    (sim.pc = "returned" /\ sim.cause \in {"timeout", "interrupt"}) =>
        \A c \in Children : Launched(c) => sim.terminated[c]

\* ------------------------------------------------------ C1, C8, C9, C10
\* the step is a file upload that was answered with a forecast
StoredUploadStep ==
    /\ resp'.route = "api_forecast"
    /\ resp'.flash = "cgm_stored"
    /\ audit_log' # audit_log

\* the step is the handling of a file upload by a logged-in user
FileUploadStep ==
    \/ StoredUploadStep
    \/ /\ resp'.route = "api_forecast"
       /\ resp'.result = "500"
       /\ clock' = clock

CgmCount(table, uid, ts) ==
    LET Test(r) == r.user_id = uid /\ r.timestamp = ts /\ r.source = "cgm"
    IN CountWhere(table, Test)

CgmTotal(table) ==
    LET Test(r) == r.source = "cgm" IN CountWhere(table, Test)

Parses(cell) == cell.form \in {"iso", "isoZ", "spaced", "tsep"}

HasAbsent(rows) == \E k \in 1..Len(rows) : rows[k].timestamp.form = "absent"

\* the timestamps of the cgm readings of uid that the step has added
AddedCgm(uid) ==
    {t \in 1..MaxTime : CgmCount(glucose_reading', uid, t) > CgmCount(glucose_reading, uid, t)}

\* ------------------------------------------------------------------ C10
\* C10 as stated: the count in the cgm_uploaded audit event is the number of
\* cgm readings the request newly stored.
C10_Original ==
    [][StoredUploadStep =>
          Last(audit_log').details[2]
              = CgmTotal(glucose_reading') - CgmTotal(glucose_reading)]_vars

C10_CountStep ==
    StoredUploadStep =>
        /\ Len(audit_log') = Len(audit_log) + 1
        /\ Last(audit_log').action = "cgm_uploaded"
        /\ Last(audit_log').user_id = session[resp'.browser]
        /\ Last(audit_log').details[2] = Len(resp'.file)

\* C10 as amended: the count in the cgm_uploaded audit event is the number of
\* data rows of the uploaded CSV, the rows suppressed as duplicates and the
\* rows skipped for their timestamp included.
C10_Theorem == [][C10_CountStep]_vars

\* an upload of two rows that stored one reading and recorded the count 2
C10_Witness ==
    /\ resp.route = "api_forecast" /\ resp.flash = "cgm_stored"
    /\ Len(resp.file) = 2
    /\ Last(audit_log).action = "cgm_uploaded"
    /\ Last(audit_log).details[2] = 2
    /\ CgmTotal(glucose_reading) = 1

\* ------------------------------------------------------------------- C1
C1_AtMostOne ==
    \A r \in BagToSet(glucose_reading) :
        r.source = "cgm" => CgmCount(glucose_reading, r.user_id, r.timestamp) = 1

\* every row whose timestamp parses has exactly one cgm reading afterwards
C1_InFileStep ==
    StoredUploadStep =>
        \A k \in 1..Len(resp'.file) :
            Parses(resp'.file[k].timestamp) =>
                CgmCount(glucose_reading', session[resp'.browser],
                         resp'.file[k].timestamp.t) = 1

\* the request before this one was an answered upload of the same file
Reupload ==
    /\ StoredUploadStep
    /\ resp.route = "api_forecast" /\ resp.flash = "cgm_stored"
    /\ resp'.file = resp.file

\* C1 as stated: at most one cgm reading per (user, timestamp), two rows of one
\* CSV with the same timestamp store one cgm reading, and uploading the same
\* CSV again stores no further cgm reading.
C1_Original ==
    /\ []C1_AtMostOne
    /\ [][C1_InFileStep]_vars
    /\ [][Reupload => CgmTotal(glucose_reading') = CgmTotal(glucose_reading)]_vars

\* C1 as amended: at most one cgm reading per (user, timestamp); rows of one
\* CSV with the same parsable timestamp store one cgm reading; and uploading
\* the same CSV again stores no further cgm reading when every row of it
\* carries a timestamp (a row without one is stamped with the time of the
\* request and stored again).
C1_Theorem ==
    /\ []C1_AtMostOne
    /\ [][C1_InFileStep]_vars
    /\ [][(Reupload /\ ~HasAbsent(resp'.file))
             => CgmTotal(glucose_reading') = CgmTotal(glucose_reading)]_vars

\* a CSV with twice the same timestamp was uploaded twice: one cgm reading
C1_Witness ==
    /\ resp.route = "api_forecast" /\ resp.flash = "cgm_stored"
    /\ Len(resp.file) = 2
    /\ resp.file[1].timestamp = resp.file[2].timestamp
    /\ Parses(resp.file[1].timestamp)
    /\ Len(audit_log) >= 3
    /\ audit_log[Len(audit_log) - 1].action = "cgm_uploaded"
    /\ audit_log[Len(audit_log) - 1].details[2] = 2
    /\ CgmTotal(glucose_reading) = 1

\* ------------------------------------------------------------------- C8
\* C8 as stated: a row whose timestamp is absent or parses under none of the
\* formats is stored as a cgm reading at the current time.
C8_Original ==
    [][StoredUploadStep =>
          \A k \in 1..Len(resp'.file) :
              ~Parses(resp'.file[k].timestamp) =>
                  \E t \in clock..clock' :
                      CgmCount(glucose_reading', session[resp'.browser], t) >= 1]_vars

C8_TimestampStep ==
    StoredUploadStep =>
        LET rows == resp'.file
            uid == session[resp'.browser]
        IN /\ \A k \in 1..Len(rows) :
                  rows[k].timestamp.form = "absent" =>
                      \E t \in clock..clock' : CgmCount(glucose_reading', uid, t) = 1
           /\ AddedCgm(uid) \subseteq
                  {rows[k].timestamp.t : k \in {j \in 1..Len(rows) : Parses(rows[j].timestamp)}}
                  \cup (IF HasAbsent(rows) THEN clock..clock' ELSE {})

\* C8 as amended: a row whose timestamp is absent is stored as a cgm reading
\* at the current time; a row whose timestamp is a string that parses under
\* none of the three formats is skipped and stores nothing.
C8_Theorem == [][C8_TimestampStep]_vars

\* a CSV of one row without a timestamp and one with an unparsable one was
\* uploaded: one cgm reading, at the current time
C8_Witness ==
    /\ resp.route = "api_forecast" /\ resp.flash = "cgm_stored"
    /\ Len(resp.file) = 2
    /\ resp.file[1].timestamp.form = "bad"
    /\ resp.file[2].timestamp.form = "absent"
    /\ CgmTotal(glucose_reading) = 1
    /\ CgmCount(glucose_reading, session[resp.browser], clock) = 1

\* ------------------------------------------------------------------- C9
Unparsable(row) == ~RowFloat(row.glucose).ok \/ row.timestamp.form = "bad"

\* C9 as stated: a row with a non-numeric glucose or an unparsable timestamp
\* is skipped, every other row of the upload is stored as a cgm reading, and
\* the request is answered with a forecast.
C9_Original ==
    [][(FileUploadStep /\ \E k \in 1..Len(resp'.file) : Unparsable(resp'.file[k])) =>
          /\ resp'.result = "json"
          /\ \A k \in 1..Len(resp'.file) :
                 (~Unparsable(resp'.file[k]) /\ Parses(resp'.file[k].timestamp)) =>
                     CgmCount(glucose_reading', session[resp'.browser],
                              resp'.file[k].timestamp.t) = 1]_vars

\* the part of C9 that the code keeps: a row with an unparsable timestamp is
\* skipped and the other rows of the upload are stored
C9_TimestampOnly ==
    [][(StoredUploadStep /\ \E k \in 1..Len(resp'.file) : resp'.file[k].timestamp.form = "bad") =>
          \A k \in 1..Len(resp'.file) :
              Parses(resp'.file[k].timestamp) =>
                  CgmCount(glucose_reading', session[resp'.browser],
                           resp'.file[k].timestamp.t) = 1]_vars

\* ------------------------------------------------------------------ C11
\* the step is a request of an audited route whose audit write failed
AuditFailedStep ==
    /\ resp'.audit_failed
    /\ resp' # resp \/ Tables' # Tables \/ session' # session

NewUsers == DOMAIN user' \ DOMAIN user

C11_FailedAuditStep ==
    AuditFailedStep =>
        LET b == resp'.browser
            route == resp'.route
        IN /\ Len(audit_log') = Len(audit_log)
           /\ resp'.result \notin {"500", "404"}
           /\ route = "login" =>
                 /\ Tables' = Tables
                 /\ resp'.result = "redirect:index" => session'[b] \in DOMAIN user
           /\ route = "logout" => Tables' = Tables /\ session'[b] = None
                                     /\ resp'.result = "redirect:login"
           /\ route = "register" =>
                 /\ resp'.result = "redirect:login"
                 /\ resp'.flash = "Registration successful"
                 /\ Cardinality(NewUsers) = 1
                 /\ \A u \in NewUsers :
                       /\ user'[u].role = "patient"
                       /\ \E p \in DOMAIN patient_profile' \ DOMAIN patient_profile :
                             patient_profile'[p].user_id = u
                 /\ \A u \in DOMAIN user : u \in DOMAIN user' /\ user'[u] = user[u]
           /\ route = "api_predict" =>
                 /\ resp'.result = "json"
                 /\ BagCardinality(risk_prediction') = BagCardinality(risk_prediction) + 1
                 /\ risk_prediction \sqsubseteq risk_prediction'
                 /\ alert \sqsubseteq alert'
                 /\ \A r \in BagToSet(risk_prediction' (-) risk_prediction) :
                       /\ r.user_id = session[b]
                       /\ BagCardinality(alert') - BagCardinality(alert)
                             = IF r.probability >= AlertThreshold THEN 1 ELSE 0
           /\ route = "api_forecast" =>
                 /\ resp'.result = "json" /\ resp'.flash = "cgm_stored"
                 /\ glucose_reading \sqsubseteq glucose_reading'
                 /\ \A k \in 1..Len(resp'.file) :
                       CgmCount(glucose_reading', session[b],
                                resp'.file[k].timestamp.t) = 1
           /\ route = "create_clinician" =>
                 /\ resp'.flash = "created successfully"
                 /\ Cardinality(NewUsers) = 1
                 /\ \A u \in NewUsers : user'[u].role = "clinician"
                 /\ \A u \in DOMAIN user : u \in DOMAIN user' /\ user'[u] = user[u]
           /\ route = "delete_user" =>
                 /\ resp'.flash = "deleted successfully"
                 /\ Cardinality(DOMAIN user \ DOMAIN user') = 1
                 /\ NewUsers = {}

\* C11: on every route that calls log_audit, when the AuditLog write fails the
\* failure is caught and rolled back, the request is answered as usual, and
\* every business write of the request stays committed: the rollback discards
\* no business write.
C11_Theorem == [][C11_FailedAuditStep]_vars

\* a registration whose audit write failed: the patient and the profile are
\* stored, no audit entry is
C11_Witness ==
    /\ resp.route = "register" /\ resp.audit_failed
    /\ resp.flash = "Registration successful"
    /\ UserByEmail(user, "new@example.com") # None
    /\ HasProfile(UserByEmail(user, "new@example.com"))
    /\ \A k \in 1..Len(audit_log) : audit_log[k].action # "user_register"

\* ------------------------------------------------------------------ C12
\* C12: with client count N, when the server is launched and when each
\* client is launched, the shard file of every client 1..N exists; no client
\* is started on a shard path that does not exist.
C12_Original ==
    /\ Launched(0) => \A i \in 1..sim.num_clients : data_dir.shards[i].exists
    /\ \A i \in 1..sim.num_clients : Launched(i) => sim.shard_seen[i]

\* what the ensuring loop does give: with the main dataset present, every
\* shard exists from the launch of the server on
C12_WithMainData ==
    data_dir.main.exists =>
        /\ Launched(0) => \A i \in 1..sim.num_clients : data_dir.shards[i].exists
        /\ \A i \in 1..sim.num_clients : Launched(i) => sim.shard_seen[i]

\* ------------------------------------------------------------------ C13
\* C13: AuditLog is append-only: after any sequence of operations, the
\* deletion of a user who owns audit entries included, every entry once
\* created still exists with all of its fields unchanged.
C13_Original ==
    [][/\ Len(audit_log') >= Len(audit_log)
       /\ \A k \in 1..Len(audit_log) : audit_log'[k] = audit_log[k]]_vars

\* what does hold: no entry is removed, and an entry changes in nothing but
\* its user reference
C13_EntriesKept ==
    [][/\ Len(audit_log') >= Len(audit_log)
       /\ \A k \in 1..Len(audit_log) :
             /\ audit_log'[k].action = audit_log[k].action
             /\ audit_log'[k].details = audit_log[k].details
             /\ audit_log'[k].ip_address = audit_log[k].ip_address
             /\ audit_log'[k].user_id \in {audit_log[k].user_id, None}]_vars

\* ------------------------------------------------------------------ C14
\* the step is the administrator's POST /admin/delete-user/<id> on a user
\* that exists
AdminDeletes(id) ==
    /\ resp'.route = "delete_user"
    /\ Gate(resp'.browser, {"admin"}) = "ok"
    /\ id \in DOMAIN user
    /\ DeleteUser(resp'.browser, id, resp'.audit_failed)

Refused(id) ==
    /\ user' = user
    /\ resp'.flash = "You cannot delete your own account"

Deleted(id) ==
    /\ user' = Delete(user, id)
    /\ Len(audit_log') = Len(audit_log) + 1
    /\ Last(audit_log').action = "user_deleted"
    /\ Last(audit_log').details[2] = user[id].email
    /\ resp'.flash = "deleted successfully"

\* C14: the administrator's delete of an existing user is refused, with the
\* users unchanged, when the target is the administrator; for any other
\* target, a patient with a PatientProfile included, exactly that user is
\* removed and one user_deleted audit event is recorded.
C14_Original ==
    [][resp'.route = "delete_user" =>
          \A id \in 1..(MaxUsers + 1) :
              AdminDeletes(id) =>
                  IF id = session[resp'.browser] THEN Refused(id) ELSE Deleted(id)]_vars

\* what does hold: the same for every target that has no PatientProfile
C14_WithoutProfile ==
    [][resp'.route = "delete_user" =>
          \A id \in 1..(MaxUsers + 1) :
              (AdminDeletes(id) /\ ~HasProfile(id)) =>
                  IF id = session[resp'.browser] THEN Refused(id) ELSE Deleted(id)]_vars

\* ------------------------------------------------------------------ C15
\* the ensuring loop of the driver has been through every client: it is at
\* its end, or the server, launched after it, has been launched
EnsureDone ==
    \/ sim.pc = "ensure" /\ sim.i > sim.num_clients
    \/ Launched(0)

\* shard i holds its range of the main dataset
IsRange(i) ==
    LET df == data_dir.main.rows
        n == Len(data_dir.main.rows)
        k == sim.num_clients
        c == n \div k
    IN /\ data_dir.shards[i].exists
       /\ data_dir.shards[i].rows =
             IF i < k THEN RowsBetween(df, (i - 1) * c, i * c)
             ELSE RowsBetween(df, (k - 1) * c, n)

Partition ==
    /\ \A i \in 1..sim.num_clients : IsRange(i)
    /\ ConcatShards(data_dir.shards, sim.num_clients) = data_dir.main.rows

\* C15 as stated: after the ensuring step for N clients, from any prior state
\* of the data directory, shards left by an earlier run included, the shards
\* 1..N do not overlap and together hold every row of the main dataset once.
C15_Original == (EnsureDone /\ data_dir.main.exists) => Partition

\* C15 as amended: after the ensuring step for N clients with the main
\* dataset present, every shard 1..N that did not exist before the step holds
\* its range of the main dataset, and a shard that existed is left as it was;
\* the shards partition the dataset when none of them existed before.
C15_Theorem ==
    (EnsureDone /\ data_dir.main.exists) =>
        /\ \A i \in 1..sim.num_clients : data_dir.shards[i] = Stale \/ IsRange(i)
        /\ (\A i \in 1..sim.num_clients : data_dir.shards[i] # Stale) => Partition

\* three clients, no shard beforehand: shards of 1, 1 and 2 rows
C15_Witness ==
    /\ EnsureDone /\ data_dir.main.exists
    /\ sim.num_clients = 3
    /\ Len(data_dir.main.rows) = 4
    /\ data_dir.shards[1] = File(<<"x">>)
    /\ data_dir.shards[2] = File(<<"y">>)
    /\ data_dir.shards[3] = File(<<"x", "y">>)

\* ------------------------------------------------------------------ C16
\* The user who last logged in as email has been deleted since: the audit
\* entry of that login has lost its user reference.
DeletedSinceLogin(email) ==
    \E j \in 1..Len(audit_log) :
        /\ audit_log[j].action = "user_login"
        /\ audit_log[j].details[2] = email
        /\ audit_log[j].user_id = None
        /\ \A k \in (j + 1)..Len(audit_log) :
              ~(audit_log[k].action = "user_login" /\ audit_log[k].details[2] = email)

\* the second browser, which logs in as new@example.com only, carries the
\* session of a deleted user
StaleSession ==
    /\ session["b2"] # None
    /\ DeletedSinceLogin("new@example.com")

\* C16: once the administrator has deleted a user, every later request with
\* that user's session is treated as unauthenticated: it reaches no
\* login-required or role-gated handler and writes no RiskPrediction, Alert,
\* GlucoseReading or AuditLog row attributed to the deleted user's id.
C16_Original ==
    [][(StaleSession /\ resp'.browser = "b2" /\ resp'.route # "login") =>
          /\ resp'.result = "redirect:login"
          /\ ~resp'.body
          /\ Tables' = Tables]_vars

\* what does hold: as long as no new user has taken the id of the deleted
\* one, the request is answered with the redirect to login and writes nothing
C16_WhileIdUnused ==
    [][(StaleSession /\ session["b2"] \notin DOMAIN user
          /\ resp'.browser = "b2" /\ resp'.route # "login") =>
          /\ resp'.result = "redirect:login"
          /\ ~resp'.body
          /\ Tables' = Tables]_vars

====
